---- MODULE Spec2Model ----
(***************************************************************************)
(* Model of the CD-Test pipeline: app.fetch_greeting and the fixture test  *)
(* runner scripts/run_automated_tests.py (load_test_data,                  *)
(* load_reference_data, run_tests, save_results, main).                    *)
(***************************************************************************)
EXTENDS Integers, Sequences, FiniteSets, TLC

VARIABLES pc, exc, raised_in, test_data, reference_dict, idx,
          results, detailed_results, fetch_log,
          binary_file, detailed_file, exit_status

vars == <<pc, exc, raised_in, test_data, reference_dict, idx,
          results, detailed_results, fetch_log,
          binary_file, detailed_file, exit_status>>

(* ------------------------------ bounds --------------------------------- *)

\* longest input_data.json array explored
MaxCases == 2
\* longest reference_data.json array explored
MaxRefs == 2

(* ------------------------- values of the fixtures ---------------------- *)

SUCCESS == "Hello, CI/CD Pipeline!"
FAILURE == "Failed to fetch greeting"

Ids == {1, 2}
Endpoints == {"https://api.github.com", "https://api.github.com/nowhere"}
Descriptions == {"basic"}

\* A Test Case is a JSON object; the well-formed ones carry the three keys the
\* loop reads, the others lack one of them.
TestCases ==
    [id : Ids, endpoint : Endpoints, description : Descriptions]
    \cup { [endpoint |-> "https://api.github.com", description |-> "basic"],
           [id |-> 1, description |-> "basic"],
           [id |-> 1, endpoint |-> "https://api.github.com"] }

\* A Reference Entry; one variant lacks expected_result, one lacks id.
ReferenceEntries ==
    [id : Ids, expected_result : {SUCCESS, FAILURE}]
    \cup { [id |-> 1], [expected_result |-> SUCCESS] }

SeqsUpTo(S, n) == UNION { [1..k -> S] : k \in 0..n }

(* ------------------------- outcomes of requests.get -------------------- *)

StatusCodes == {200, 201, 404}

\* What the single GET of fetch_greeting can do: answer with a status code,
\* raise a requests.exceptions.RequestException (connection failure), raise
\* its subclass Timeout, or raise an exception outside that hierarchy.
GetOutcomes ==
    [kind : {"response"}, status_code : StatusCodes]
    \cup { [kind |-> "RequestException", text |-> "connection refused"],
           [kind |-> "Timeout", text |-> "timed out"],
           [kind |-> "OtherException", text |-> "boom"] }

\* the except clause of fetch_greeting
fetch_greeting_catches(kind) == kind \in {"RequestException", "Timeout"}

\* fetch_greeting with  response.status_code < 300  for the comparison
fetch_greeting_any_2xx(outcome) ==
    IF outcome.kind = "response"
    THEN IF outcome.status_code < 300
         THEN [raised |-> FALSE, value |-> SUCCESS]
         ELSE [raised |-> FALSE, value |-> FAILURE]
    ELSE IF outcome.kind \in {"RequestException", "Timeout"}
         THEN [raised |-> FALSE, value |-> FAILURE]
         ELSE [raised |-> TRUE, value |-> outcome.text]

\* fetch_greeting(url): what it hands back for an outcome of the GET
fetch_greeting(outcome) ==
    IF outcome.kind = "response"
    THEN IF outcome.status_code = 200
         THEN [raised |-> FALSE, value |-> SUCCESS]
         ELSE [raised |-> FALSE, value |-> FAILURE]
    ELSE IF fetch_greeting_catches(outcome.kind)
         THEN [raised |-> FALSE, value |-> FAILURE]
         ELSE [raised |-> TRUE, value |-> outcome.text]

(* ------------------------------ helpers -------------------------------- *)

HasKey(obj, k) == k \in DOMAIN obj

\* {item['id']: item for item in reference_data}: a later item replaces an
\* earlier one with the same id
build_reference_dict(refs) ==
    LET ids == { refs[k].id : k \in 1..Len(refs) }
        last(id) == CHOOSE k \in 1..Len(refs) :
                        /\ refs[k].id = id
                        /\ \A m \in (k+1)..Len(refs) : refs[m].id # id
    IN  [id \in ids |-> refs[last(id)]]

\* f"{result}\n" without the newline: one line of binary_results.txt
FormatLine(result) == ToString(result)

\* the body of  for result in binary_results: f.write(...)
BinaryLines(rs) == [k \in 1..Len(rs) |-> FormatLine(rs[k])]

RECURSIVE Sum(_)
\* sum(binary_results)
Sum(rs) == IF rs = <<>> THEN 0 ELSE Head(rs) + Sum(Tail(rs))

\* an output file this run has not opened
NoFile == [state |-> "absent", content |-> <<>>]
\* an output file opened with 'w' whose writing raised: truncated, and what
\* reached the disk is not determined (content is not used in this state)
PartialFile == [state |-> "partial", content |-> <<>>]

(* ------------------------------- Init ---------------------------------- *)

Init ==
    /\ pc = "main"
    /\ exc = "none"
    /\ raised_in = "none"
    /\ test_data = <<>>
    /\ reference_dict = <<>>
    /\ idx = 1
    /\ results = <<>>
    /\ detailed_results = <<>>
    /\ fetch_log = <<>>
    /\ binary_file = NoFile
    /\ detailed_file = NoFile
    /\ exit_status = -1

\* an exception leaves run_tests / save_results and travels to main's handler;
\* raised_in is the statement of the traceback it came from
Raise(e, where) ==
    /\ pc' = "raised"
    /\ exc' = e
    /\ raised_in' = where

(* --------------------------- run_tests: loading ------------------------ *)

\* test_data = load_test_data()
load_test_data ==
    /\ pc = "main"
    /\ \E td \in SeqsUpTo(TestCases, MaxCases) : test_data' = td
    /\ pc' = "load_reference"
    /\ UNCHANGED <<exc, raised_in, reference_dict, idx, results,
                   detailed_results, fetch_log, binary_file, detailed_file,
                   exit_status>>

\* open() or json.load() of input_data.json fails
load_test_data_fails ==
    /\ pc = "main"
    /\ \E e \in {"FileNotFoundError", "JSONDecodeError"} :
          Raise(e, "load_test_data")
    /\ UNCHANGED <<test_data, reference_dict, idx, results,
                   detailed_results, fetch_log, binary_file, detailed_file,
                   exit_status>>

\* reference_data = load_reference_data(); reference_dict = {...}; results = []
load_reference_data ==
    /\ pc = "load_reference"
    /\ \E rd \in SeqsUpTo(ReferenceEntries, MaxRefs) :
          IF \A k \in 1..Len(rd) : HasKey(rd[k], "id")
          THEN /\ reference_dict' = build_reference_dict(rd)
               /\ pc' = "loop"
               /\ UNCHANGED <<exc, raised_in>>
          ELSE /\ reference_dict' = reference_dict
               /\ Raise("KeyError", "reference_dict")
    /\ UNCHANGED <<test_data, idx, results, detailed_results, fetch_log,
                   binary_file, detailed_file, exit_status>>

\* open() or json.load() of reference_data.json fails
load_reference_data_fails ==
    /\ pc = "load_reference"
    /\ \E e \in {"FileNotFoundError", "JSONDecodeError"} :
          Raise(e, "load_reference_data")
    /\ UNCHANGED <<test_data, reference_dict, idx, results,
                   detailed_results, fetch_log, binary_file, detailed_file,
                   exit_status>>

(* --------------------------- run_tests: the loop ----------------------- *)

InLoop == pc = "loop" /\ idx <= Len(test_data)

test_case == test_data[idx]

WellFormedCase(tc) ==
    HasKey(tc, "id") /\ HasKey(tc, "endpoint") /\ HasKey(tc, "description")

\* test_case['id'], test_case['endpoint'] or test_case['description'] raises
\* KeyError; the three reads are outside the try block
run_tests_case_key_error ==
    /\ InLoop
    /\ ~WellFormedCase(test_case)
    /\ Raise("KeyError", "test_case")
    /\ UNCHANGED <<test_data, reference_dict, idx, results,
                   detailed_results, fetch_log, binary_file, detailed_file,
                   exit_status>>

\* the missing-reference branch with  continue  alone, no results.append(0)
run_tests_missing_reference_no_append ==
    /\ pc = "loop" /\ idx <= Len(test_data)
    /\ WellFormedCase(test_data[idx])
    /\ test_data[idx].id \notin DOMAIN reference_dict
    /\ idx' = idx + 1
    /\ UNCHANGED <<pc, exc, raised_in, test_data, reference_dict, results,
                   detailed_results, fetch_log, binary_file, detailed_file,
                   exit_status>>

\* if test_id not in reference_dict: results.append(0); continue
run_tests_missing_reference ==
    /\ InLoop
    /\ WellFormedCase(test_case)
    /\ test_case.id \notin DOMAIN reference_dict
    /\ results' = Append(results, 0)
    /\ idx' = idx + 1
    /\ UNCHANGED <<pc, exc, raised_in, test_data, reference_dict,
                   detailed_results, fetch_log, binary_file, detailed_file,
                   exit_status>>

HasReference(tc) == WellFormedCase(tc) /\ tc.id \in DOMAIN reference_dict

\* expected_result = reference['expected_result'] raises KeyError, before try
run_tests_reference_key_error ==
    /\ InLoop
    /\ HasReference(test_case)
    /\ ~HasKey(reference_dict[test_case.id], "expected_result")
    /\ Raise("KeyError", "reference")
    /\ UNCHANGED <<test_data, reference_dict, idx, results,
                   detailed_results, fetch_log, binary_file, detailed_file,
                   exit_status>>

Fetchable(tc) ==
    HasReference(tc) /\ HasKey(reference_dict[tc.id], "expected_result")

\* the record of one call of the Fetcher
FetchCall(outcome) ==
    [index |-> idx, endpoint |-> test_case.endpoint, outcome |-> outcome,
     scored |-> Len(results), returned |-> fetch_greeting(outcome)]

\* the try block's dict with  binary_result = 0 if test_passed else 1
PassFailResult_inverted(tc, expected, actual) ==
    LET test_passed == (actual = expected)
        binary_result == IF test_passed THEN 0 ELSE 1
    IN  [id |-> tc.id, description |-> tc.description,
         endpoint |-> tc.endpoint, expected |-> expected, actual |-> actual,
         passed |-> test_passed, binary_result |-> binary_result]

\* the dict appended in the try block
PassFailResult(tc, expected, actual) ==
    LET test_passed == (actual = expected)
        binary_result == IF test_passed THEN 1 ELSE 0
    IN  [id |-> tc.id, description |-> tc.description,
         endpoint |-> tc.endpoint, expected |-> expected, actual |-> actual,
         passed |-> test_passed, binary_result |-> binary_result]

\* the dict appended in the except block
ErrorResult(tc, expected, text) ==
    [id |-> tc.id, description |-> tc.description, endpoint |-> tc.endpoint,
     expected |-> expected, actual |-> "ERROR: " \o text,
     passed |-> FALSE, binary_result |-> 0]

\* the try block calling the Fetcher a second time when the first call did
\* not return the success string
run_tests_compare_retry ==
    /\ pc = "loop" /\ idx <= Len(test_data)
    /\ Fetchable(test_data[idx])
    /\ \E outcome \in GetOutcomes :
          LET r == fetch_greeting(outcome)
              expected == reference_dict[test_data[idx].id].expected_result
              d == PassFailResult(test_data[idx], expected, r.value)
              once == Append(fetch_log, FetchCall(outcome))
          IN  /\ ~r.raised
              /\ fetch_log' = IF r.value = SUCCESS THEN once
                              ELSE Append(once, FetchCall(outcome))
              /\ results' = Append(results, d.binary_result)
              /\ detailed_results' = Append(detailed_results, d)
    /\ idx' = idx + 1
    /\ UNCHANGED <<pc, exc, raised_in, test_data, reference_dict,
                   binary_file, detailed_file, exit_status>>

\* try: actual_result = fetch_greeting(endpoint); compare; append both
run_tests_compare ==
    /\ InLoop
    /\ Fetchable(test_case)
    /\ \E outcome \in GetOutcomes :
          LET r == fetch_greeting(outcome)
              expected == reference_dict[test_case.id].expected_result
              d == PassFailResult(test_case, expected, r.value)
          IN  /\ ~r.raised
              /\ fetch_log' = Append(fetch_log, FetchCall(outcome))
              /\ results' = Append(results, d.binary_result)
              /\ detailed_results' = Append(detailed_results, d)
    /\ idx' = idx + 1
    /\ UNCHANGED <<pc, exc, raised_in, test_data, reference_dict,
                   binary_file, detailed_file, exit_status>>

\* the except block with results.append(0) alone, no detailed_results.append
run_tests_exception_no_detail ==
    /\ pc = "loop" /\ idx <= Len(test_data)
    /\ Fetchable(test_data[idx])
    /\ \E outcome \in GetOutcomes :
          /\ fetch_greeting(outcome).raised
          /\ fetch_log' = Append(fetch_log, FetchCall(outcome))
          /\ results' = Append(results, 0)
    /\ idx' = idx + 1
    /\ UNCHANGED <<pc, exc, raised_in, test_data, reference_dict,
                   detailed_results, binary_file, detailed_file, exit_status>>

\* except Exception as e: results.append(0); detailed_results.append({...})
run_tests_exception ==
    /\ InLoop
    /\ Fetchable(test_case)
    /\ \E outcome \in GetOutcomes :
          LET r == fetch_greeting(outcome)
              expected == reference_dict[test_case.id].expected_result
          IN  /\ r.raised
              /\ fetch_log' = Append(fetch_log, FetchCall(outcome))
              /\ results' = Append(results, 0)
              /\ detailed_results' =
                    Append(detailed_results,
                           ErrorResult(test_case, expected, r.value))
    /\ idx' = idx + 1
    /\ UNCHANGED <<pc, exc, raised_in, test_data, reference_dict,
                   binary_file, detailed_file, exit_status>>

\* main going from run_tests straight to the summary, save_results left out
run_tests_return_skip_save ==
    /\ pc = "loop"
    /\ idx > Len(test_data)
    /\ pc' = "summary"
    /\ UNCHANGED <<exc, raised_in, test_data, reference_dict, idx,
                   results, detailed_results, fetch_log, binary_file,
                   detailed_file, exit_status>>

\* the for loop is exhausted: return results, detailed_results
run_tests_return ==
    /\ pc = "loop"
    /\ idx > Len(test_data)
    /\ pc' = "save_binary"
    /\ UNCHANGED <<exc, raised_in, test_data, reference_dict, idx,
                   results, detailed_results, fetch_log, binary_file,
                   detailed_file, exit_status>>

(* ------------------------------ save_results --------------------------- *)

\* mkdir; open(binary_results_path, 'w'); one f.write per result
save_results_binary ==
    /\ pc = "save_binary"
    /\ binary_file' = [state |-> "complete", content |-> BinaryLines(results)]
    /\ pc' = "save_detailed"
    /\ UNCHANGED <<exc, raised_in, test_data, reference_dict, idx,
                   results, detailed_results, fetch_log, detailed_file,
                   exit_status>>

\* mkdir or open raises OSError (nothing written), or a write raises
save_results_binary_fails ==
    /\ pc = "save_binary"
    /\ \/ binary_file' = binary_file
       \/ binary_file' = PartialFile
    /\ Raise("OSError", "binary_results.txt")
    /\ UNCHANGED <<test_data, reference_dict, idx, results,
                   detailed_results, fetch_log, detailed_file, exit_status>>

\* open(detailed_results_path, 'w'); json.dump(detailed_results, f, indent=2)
save_results_detailed ==
    /\ pc = "save_detailed"
    /\ detailed_file' = [state |-> "complete", content |-> detailed_results]
    /\ pc' = "summary"
    /\ UNCHANGED <<exc, raised_in, test_data, reference_dict, idx,
                   results, detailed_results, fetch_log, binary_file,
                   exit_status>>

\* open raises OSError (nothing written) or json.dump raises part-way
save_results_detailed_fails ==
    /\ pc = "save_detailed"
    /\ \/ detailed_file' = detailed_file
       \/ detailed_file' = PartialFile
    /\ Raise("OSError", "detailed_results.json")
    /\ UNCHANGED <<test_data, reference_dict, idx, results,
                   detailed_results, fetch_log, binary_file, exit_status>>

(* ---------------------------------- main ------------------------------- *)

\* failed_tests = total_tests - passed_tests
failed_tests(rs) == Len(rs) - Sum(rs)

\* the exit test as  if passed_tests > 0
ExitCode_any_passed(rs) == IF Sum(rs) > 0 THEN 0 ELSE 1

\* if failed_tests == 0: sys.exit(0) else: sys.exit(1)
ExitCode(rs) == IF failed_tests(rs) = 0 THEN 0 ELSE 1

main_summary_exit ==
    /\ pc = "summary"
    /\ exit_status' = ExitCode(results)
    /\ pc' = "exited"
    /\ UNCHANGED <<exc, raised_in, test_data, reference_dict, idx,
                   results, detailed_results, fetch_log, binary_file,
                   detailed_file>>

\* main's handler as  except KeyError
main_catches_key_error_only(e) == e = "KeyError"

\* the classes `except Exception` of main catches
main_catches(e) ==
    e \in {"FileNotFoundError", "JSONDecodeError", "KeyError", "OSError"}

\* except Exception as e: print(...); sys.exit(1)
main_except ==
    /\ pc = "raised"
    /\ main_catches(exc)
    /\ exit_status' = 1
    /\ pc' = "exited"
    /\ UNCHANGED <<exc, raised_in, test_data, reference_dict, idx,
                   results, detailed_results, fetch_log, binary_file,
                   detailed_file>>

Next ==
    \/ load_test_data
    \/ load_test_data_fails
    \/ load_reference_data
    \/ load_reference_data_fails
    \/ run_tests_case_key_error
    \/ run_tests_missing_reference
    \/ run_tests_reference_key_error
    \/ run_tests_compare
    \/ run_tests_exception
    \/ run_tests_return
    \/ save_results_binary
    \/ save_results_binary_fails
    \/ save_results_detailed
    \/ save_results_detailed_fails
    \/ main_summary_exit
    \/ main_except

Spec == Init /\ [][Next]_vars

(* ======================= properties of the program ===================== *)

FetchCalls == { fetch_log[k] : k \in 1..Len(fetch_log) }
DetailedResults == { detailed_results[k] : k \in 1..Len(detailed_results) }

\* the test cases the loop has finished with
Processed == 1..(idx - 1)

\* the processed cases that were joined to a reference entry, in input order
Referenced == { k \in Processed : HasReference(test_data[k]) }

\* the k-th smallest element of a set of indexes
RECURSIVE Nth(_, _)
Nth(S, k) ==
    LET m == CHOOSE x \in S : \A y \in S : x <= y
    IN  IF k = 1 THEN m ELSE Nth(S \ {m}, k - 1)

\* what the k-th test case scored, read off the calls of the Fetcher and the
\* reference entries rather than off the result lists
CaseScore(k) ==
    IF ~HasReference(test_data[k]) THEN 0
    ELSE IF \E c \in FetchCalls :
               /\ c.index = k
               /\ ~c.returned.raised
               /\ c.returned.value =
                      reference_dict[test_data[k].id].expected_result
         THEN 1 ELSE 0

\* C1: whatever the GET did (a status code, a connection failure, a timeout),
\* fetch_greeting returned the success string exactly for status 200, the
\* failure string otherwise, and raised nothing.
C1_FetchGreetingTwoStrings ==
    \A c \in FetchCalls :
        c.outcome.kind \in {"response", "RequestException", "Timeout"} =>
            /\ ~c.returned.raised
            /\ c.returned.value \in {SUCCESS, FAILURE}
            /\ c.returned.value = SUCCESS <=>
                   (c.outcome.kind = "response" /\ c.outcome.status_code = 200)

C1_Witness ==
    \E a, b \in FetchCalls :
        /\ a.outcome.kind = "response" /\ a.outcome.status_code = 200
        /\ a.returned.value = SUCCESS
        /\ b.outcome.kind = "Timeout"
        /\ b.returned.value = FAILURE

\* C2: the process exits 0 only if every test case passed (one result per
\* case, all 1); once it has exited with a failed case among the results, a
\* missing reference or a raising execution included, the status is 1.
C2_ExitZeroOnlyIfAllPassed ==
    /\ exit_status = 0 =>
          /\ Len(results) = Len(test_data)
          /\ \A k \in 1..Len(results) : results[k] = 1
    /\ (pc = "exited" /\ \E k \in 1..Len(results) : results[k] = 0) =>
          exit_status = 1

C2_Witness ==
    /\ pc = "exited"
    /\ raised_in = "none"
    /\ exit_status = 1
    /\ \E k \in 1..Len(test_data) : ~HasReference(test_data[k])
    /\ \E c \in FetchCalls : c.returned.raised

\* C3: once save_results has written binary_results.txt, the file has one
\* line per test case, each "0" or "1", and line i is the score of the i-th
\* test case of the input array.
C3_BinaryFileOneLinePerCase ==
    binary_file.state = "complete" =>
        /\ Len(binary_file.content) = Len(test_data)
        /\ \A k \in 1..Len(binary_file.content) :
              /\ binary_file.content[k] \in {"0", "1"}
              /\ binary_file.content[k] = ToString(CaseScore(k))

C3_Witness ==
    /\ binary_file.state = "complete"
    /\ Len(binary_file.content) >= 2
    /\ binary_file.content[1] = "0"
    /\ binary_file.content[2] = "1"
    /\ ~HasReference(test_data[1])

\* C4: every Detailed Result has binary_result 1 exactly when actual equals
\* expected, 0 otherwise, and passed is true exactly when binary_result is 1.
C4_BinaryResultIffEqual ==
    \A d \in DetailedResults :
        /\ d.binary_result \in {0, 1}
        /\ d.binary_result = 1 <=> d.actual = d.expected
        /\ d.passed <=> d.binary_result = 1

C4_Witness ==
    \E d, e \in DetailedResults :
        /\ d.binary_result = 1 /\ d.actual = SUCCESS
        /\ e.binary_result = 0 /\ e.expected = SUCCESS

\* C5: a test case whose id has no reference entry scores 0 without raising,
\* and the run goes on to process every later test case: a run that has left
\* the loop after such a case has been through the whole input array.
C5_MissingReferenceThenAllLater ==
    \A k \in Processed :
        (WellFormedCase(test_data[k]) /\ ~HasReference(test_data[k])) =>
            /\ results[k] = 0
            /\ pc # "loop" => idx > Len(test_data)

\* C6: no exception of a single case's execution leaves the loop, the reads
\* of the case's and the reference's fields included; each is turned into a
\* failed Detailed Result with the error text as actual.
C6_CaseExceptionsCaught ==
    /\ raised_in \notin {"test_case", "reference"}
    /\ \A c \in FetchCalls :
          c.returned.raised =>
              \E d \in DetailedResults :
                  /\ d.actual = "ERROR: " \o c.returned.value
                  /\ ~d.passed
                  /\ d.binary_result = 0

\* C7: an exception raised while loading the fixtures or saving the results
\* is caught by main's handler, and the exit status is then 1, never 0.
LoadOrSave ==
    {"load_test_data", "load_reference_data", "reference_dict",
     "binary_results.txt", "detailed_results.json"}

C7_TopLevelFailureExitsOne ==
    raised_in \in LoadOrSave =>
        /\ pc \in {"raised", "exited"}
        /\ pc = "raised" => (exit_status = -1 /\ ENABLED main_except)
        /\ pc = "exited" => exit_status = 1

C7_Witness ==
    /\ pc = "exited"
    /\ raised_in = "binary_results.txt"
    /\ exit_status = 1
    /\ Len(results) >= 1
    /\ \A k \in 1..Len(results) : results[k] = 1

\* C8 as first stated: when run_tests returns, detailed_results has one
\* entry for each test case of the input array, in input order.
C8_OneDetailedResultPerCase ==
    pc = "save_binary" =>
        /\ Len(detailed_results) = Len(test_data)
        /\ \A k \in 1..Len(detailed_results) :
              detailed_results[k].id = test_data[k].id

\* C8 amended: detailed_results holds exactly one entry for each processed
\* test case that has a reference entry, in input order, none for a case
\* whose reference is missing, and an appended entry never changes.
C8_DetailedEntriesNow ==
    /\ Len(detailed_results) = Cardinality(Referenced)
    /\ \A j \in 1..Len(detailed_results) :
          LET tc == test_data[Nth(Referenced, j)]
              d == detailed_results[j]
          IN  /\ d.id = tc.id
              /\ d.endpoint = tc.endpoint
              /\ d.description = tc.description
              /\ d.expected = reference_dict[tc.id].expected_result

C8_DetailedEntriesKept ==
    /\ Len(detailed_results') >= Len(detailed_results)
    /\ \A j \in 1..Len(detailed_results) :
          detailed_results'[j] = detailed_results[j]

C8_OneDetailedResultPerReferencedCase ==
    []C8_DetailedEntriesNow /\ [][C8_DetailedEntriesKept]_vars

C8_Witness ==
    /\ pc = "save_binary"
    /\ Len(test_data) = 2
    /\ Len(detailed_results) = 1
    /\ ~HasReference(test_data[1])
    /\ detailed_results[1].id = test_data[2].id

\* C9 as first stated: when run_tests returns, the Fetcher has been called
\* exactly once for each test case, in input order.
C9_OneFetchPerCase ==
    pc = "save_binary" =>
        /\ Len(fetch_log) = Len(test_data)
        /\ \A k \in 1..Len(fetch_log) : fetch_log[k].index = k

\* C9 amended: the Fetcher is called at most once per test case, in input
\* order and with that case's endpoint: exactly once for each processed case
\* that has a reference entry, never for a case whose reference is missing,
\* and only when every earlier case has been scored.
C9_OneFetchPerReferencedCase ==
    /\ \A j, k \in 1..Len(fetch_log) :
          j < k => fetch_log[j].index < fetch_log[k].index
    /\ \A c \in FetchCalls :
          /\ c.index \in Processed
          /\ c.endpoint = test_data[c.index].endpoint
          /\ c.scored = c.index - 1
    /\ \A k \in Processed :
          (\E c \in FetchCalls : c.index = k) <=> HasReference(test_data[k])
    /\ Len(results) = idx - 1

C9_Witness ==
    /\ pc = "save_binary"
    /\ Len(fetch_log) = 1
    /\ fetch_log[1].index = 2
    /\ fetch_log[1].endpoint = "https://api.github.com/nowhere"
    /\ test_data[1].endpoint = "https://api.github.com"

\* C10: exit status 0 comes only after both output files were written in
\* full, binary_results.txt before detailed_results.json and both after the
\* last test case; a failed load writes no file; a failure writing
\* detailed_results.json leaves binary_results.txt written and the status 1.
C10_FilesBeforeExit ==
    /\ exit_status = 0 =>
          /\ binary_file = [state |-> "complete",
                            content |-> BinaryLines(results)]
          /\ detailed_file = [state |-> "complete",
                              content |-> detailed_results]
    /\ detailed_file.state # "absent" => binary_file.state = "complete"
    /\ binary_file.state # "absent" =>
          (pc \notin {"main", "load_reference", "loop"}
              /\ idx > Len(test_data))
    /\ raised_in \in {"load_test_data", "load_reference_data",
                      "reference_dict"} =>
          (binary_file.state = "absent" /\ detailed_file.state = "absent")
    /\ raised_in = "detailed_results.json" =>
          /\ binary_file.state = "complete"
          /\ pc = "exited" => exit_status = 1

C10_Witness ==
    /\ pc = "exited"
    /\ raised_in = "detailed_results.json"
    /\ binary_file.state = "complete"
    /\ detailed_file.state = "partial"
    /\ Len(binary_file.content) >= 1
    /\ exit_status = 1

====
